---- MODULE Spec2Model ----
(***************************************************************************)
(* The value table of parity-db (src/src/table.rs): a slot file with a     *)
(* header, a free list threaded through tombstones, multipart chains, and  *)
(* the two-phase plan / enact pipeline.                                    *)
(*                                                                         *)
(* Bytes are abstracted as follows.  A key is identified with the u64 its  *)
(* bytes [2..10] spell (little endian); a value is identified with its     *)
(* length, and a run of value bytes is the triple <<value, from, to>>.     *)
(* A slot (in the log or in the file) is the decoded entry: its tag, its   *)
(* next / next_free word, its size field and the content it carries.       *)
(***************************************************************************)
EXTENDS Integers, Sequences, FiniteSets, TLC

\* ---------------------------------------------------------------- constants
KEY_LEN == 32
MAX_ENTRY_SIZE == 65534
MULTIPART_ENTRY_SIZE == 4096
GROW_BYTES == 262144
KEY_SUFFIX == 30
TOMBSTONE_LEN == 10

\* ------------------------------------------------------------------- bounds
MaxWork == 4
MaxPending == 2
MaxCrashes == 1
MaxParts == 6

\* Keys the callers use (the word their bytes [2..10] spell).
Keys == {2, 3}
\* Value lengths the callers use in a multipart table: one, two, three slots.
MultiValues == {10, 5000, 10000}
\* Value lengths in a single-slot table: one that fits, one that does not.
SingleValues == {10, MAX_ENTRY_SIZE - KEY_LEN + 1}

VARIABLES
    multipart, entry_size,      \* ValueTable parameters, fixed by open
    capacity, filled, last_removed,  \* ValueTable fields (in memory)
    fileLen, fslot, hdr,        \* the backing file: length, slots, header
    cur,                        \* LogWriter: the in-progress batch
    pending,                    \* LogOverlays / WAL: recorded batches, oldest first
    enacted,                    \* slots of pending[1] already enacted
    mode,                       \* "run" | "down" | "replay"
    wpc, w,                     \* the writer's position and locals
    live, livePub,              \* the index layer: key -> head and value
    pub,                        \* counters as of the last recorded batch; clean: the
                                \* crash came with recorded batches and nothing else staged
    nf,                         \* the last next_free call
    lifo,                       \* the last remove's slots not yet handed out, newest first
    curWrites,                  \* keys whose chain the in-progress batch staged
    recovered,                  \* a replay after a crash has just completed
    ops, crashes

vars == <<multipart, entry_size, capacity, filled, last_removed, fileLen, fslot,
          hdr, cur, pending, enacted, mode, wpc, w, live, livePub, pub, nf,
          lifo, curWrites, recovered, ops, crashes>>

\* ------------------------------------------------------------------ entries
Tomb(n) == [kind |-> "tomb", next |-> n, size |-> 0, key |-> 0, val |-> 0, from |-> 0, to |-> 0]

Multi(n, k, v, a, b) == [kind |-> "multi", next |-> n, size |-> 0, key |-> k, val |-> v, from |-> a, to |-> b]

Single(s, k, v, a, b) == [kind |-> "single", next |-> 0, size |-> s, key |-> k, val |-> v, from |-> a, to |-> b]

\* A slot that set_len created and nothing wrote: zero bytes.
Zero == Single(0, 0, 0, 0, 0)

\* The u64 at bytes [2..10] of an entry.
Word(e) == IF e.kind = "single" THEN e.key ELSE e.next

\* The bytes insert_value stages for an entry.
StagedLen(e) ==
    IF e.kind = "tomb" THEN TOMBSTONE_LEN
    ELSE IF e.kind = "multi" THEN entry_size
    ELSE 2 + e.size

\* ------------------------------------------------------------ the tag bytes
TOMBSTONE == <<255, 255>>

MULTIPART == <<255, 254>>

\* u16::to_le_bytes.
size_bytes(n) == <<n % 256, (n \div 256) % 256>>

\* Bytes [0..2] of an entry as the writer encodes it.
tag(e) ==
    IF e.kind = "tomb" THEN TOMBSTONE
    ELSE IF e.kind = "multi" THEN MULTIPART
    ELSE size_bytes(e.size)

\* What a reader takes bytes [0..2] for: TOMBSTONE first, MULTIPART second,
\* a size otherwise.
classify(b) ==
    IF b = TOMBSTONE THEN "tomb" ELSE IF b = MULTIPART THEN "multi" ELSE "single"

Kind(e) == classify(tag(e))

\* The key a reader finds at the content offset its classification gives: the
\* entry's own key when the reader takes the entry for what it was written
\* as, other bytes (-1) when it does not.
key_read(e) == IF Kind(e) = e.kind THEN e.key ELSE -1

\* The bytes enact_plan reads from the log and writes for an entry.
enact_len(e) ==
    IF Kind(e) = "tomb" THEN TOMBSTONE_LEN
    ELSE IF Kind(e) = "multi" THEN entry_size
    ELSE 2 + e.size

EmptyMap == [i \in {} |-> Zero]

Max(a, b) == IF a >= b THEN a ELSE b

Min(a, b) == IF a <= b THEN a ELSE b

\* --------------------------------------------------------------- the log
\* LogWriter::value_overlay_at: the in-progress batch only.
value_overlay_at(batch, i) ==
    IF i \in DOMAIN batch THEN [some |-> TRUE, e |-> batch[i]] ELSE [some |-> FALSE, e |-> Zero]

RECURSIVE LatestIn(_, _, _)
LatestIn(batches, n, i) ==
    IF n = 0 THEN [some |-> FALSE, e |-> Zero]
    ELSE IF i \in DOMAIN batches[n].entries THEN [some |-> TRUE, e |-> batches[n].entries[i]]
    ELSE LatestIn(batches, n - 1, i)

\* LogOverlays::value: the most recent staged entry across the recorded batches.
log_value(i) ==
    IF mode = "run" THEN LatestIn(pending, Len(pending), i) ELSE [some |-> FALSE, e |-> Zero]

\* LogWriter::insert_value on the in-progress batch.
insert_value(batch, i, e) == (i :> e) @@ batch

\* ------------------------------------------------------------- the file
value_size == entry_size - KEY_LEN

\* read_exact_at of n bytes at the slot: fails past the end of the file.
read_at(index, n) ==
    [ok |-> index * entry_size + n <= fileLen,
     e  |-> IF index \in DOMAIN fslot THEN fslot[index] ELSE Zero]

\* ----------------------------------------------------------- the writer
read_next_free_on(batch, index) ==
    LET ov == value_overlay_at(batch, index)
    IN IF ov.some THEN [ok |-> TRUE, val |-> Word(ov.e)]
       ELSE LET r == read_at(index, 10) IN [ok |-> r.ok, val |-> Word(r.e)]

read_next_free(index) == read_next_free_on(cur, index)

\* Some(next) is [ok, some |-> TRUE, val |-> next]; None is some |-> FALSE.
read_next_part_on(batch, index) ==
    LET ov == value_overlay_at(batch, index)
    IN IF ov.some THEN [ok |-> TRUE, some |-> Kind(ov.e) = "multi", val |-> Word(ov.e)]
       ELSE LET r == read_at(index, 10)
            IN [ok |-> r.ok, some |-> Kind(r.e) = "multi", val |-> Word(r.e)]

read_next_part(index) == read_next_part_on(cur, index)

\* A next_free that hands out the watermark itself and then raises it.
next_free_on_watermark(batch, f, lr) ==
    IF lr # 0
    THEN LET r == read_next_free_on(batch, lr)
         IN [ok |-> r.ok, index |-> lr, filled |-> f, last_removed |-> r.val]
    ELSE [ok |-> TRUE, index |-> f, filled |-> f + 1, last_removed |-> lr]

\* next_free on counters (f, lr): the index and the counters it leaves.
next_free_on(batch, f, lr) ==
    IF lr # 0
    THEN LET r == read_next_free_on(batch, lr)
         IN [ok |-> r.ok, index |-> lr, filled |-> f, last_removed |-> r.val]
    ELSE [ok |-> TRUE, index |-> f + 1, filled |-> f + 1, last_removed |-> lr]

next_free == next_free_on(cur, filled, last_removed)

\* ------------------------------------------------------------ the reader
\* get's fetch of one slot: overlay first, file second (a whole entry).
fetch(index) ==
    LET ov == log_value(index)
    IN IF ov.some THEN [ok |-> TRUE, e |-> ov.e] ELSE read_at(index, entry_size)

\* The content an entry carries after its header: the key suffix when it is a
\* chain's first slot, then a run of value bytes.  <<-1, 0, 30>> is a key suffix.
content(e) == IF e.key # 0 THEN <<<<-1, 0, KEY_SUFFIX>>, <<e.val, e.from, e.to>>>>
              ELSE <<<<e.val, e.from, e.to>>>>

RECURSIVE get_loop(_, _, _, _, _)
get_loop(key, index, part, out, fuel) ==
    LET r == fetch(index) IN
    IF ~r.ok THEN [res |-> "err", out |-> <<>>]
    ELSE IF Kind(r.e) = "tomb" THEN [res |-> "none", out |-> <<>>]
    ELSE IF part = 0 /\ key_read(r.e) # key THEN [res |-> "none", out |-> <<>>]
    ELSE LET next == IF Kind(r.e) = "multi" THEN Word(r.e) ELSE 0
             more == IF part = 0 THEN <<<<r.e.val, r.e.from, r.e.to>>>> ELSE content(r.e)
         IN IF next = 0 THEN [res |-> "some", out |-> out \o more]
            ELSE IF fuel = 0 THEN [res |-> "loop", out |-> <<>>]
            ELSE get_loop(key, next, part + 1, out \o more, fuel - 1)

get(key, index) == get_loop(key, index, 0, <<>>, MaxParts)

\* The runs spell exactly the value v (of length v).
IsValue(out, v) ==
    /\ Len(out) >= 1
    /\ out[1][2] = 0
    /\ out[Len(out)][3] = v
    /\ \A j \in 1..Len(out) : out[j][1] = v
    /\ \A j \in 1..(Len(out) - 1) : out[j][3] = out[j + 1][2]

Returns(key, index, v) == LET g == get(key, index) IN g.res = "some" /\ IsValue(g.out, v)

\* ------------------------------------------------- overwrite_chain, by step
W0 == [op |-> "none", key |-> 0, value |-> 0, remainder |-> 0, offset |-> 0,
       start |-> 0, index |-> 0, follow |-> FALSE, next_index |-> 0,
       allocs |-> <<>>, fresh |-> {}, old |-> <<>>, cleared |-> <<>>,
       pre |-> [filled |-> 0, last_removed |-> 0, cur |-> EmptyMap]]

\* The counters and the overlay as a plan function finds them at its call.
AtCall == [filled |-> filled, last_removed |-> last_removed, cur |-> cur]

NF0 == [valid |-> FALSE, index |-> 0, pre_filled |-> 0, pre_lr |-> 0,
        post_filled |-> 0, was_tomb |-> FALSE, expect |-> 0,
        post_lr |-> 0, pend_tomb |-> FALSE, tomb_next |-> 0, was_live |-> FALSE]

\* What the writer knows of a slot: its own batch, then the recorded batches,
\* then the file.
TrueView(i) ==
    IF i \in DOMAIN cur THEN cur[i]
    ELSE LET ov == LatestIn(pending, Len(pending), i)
         IN IF ov.some THEN ov.e
            ELSE IF i \in DOMAIN fslot THEN fslot[i] ELSE Zero

RECURSIVE ChainOf(_, _)
ChainOf(i, fuel) ==
    IF i = 0 \/ fuel = 0 THEN <<>>
    ELSE LET e == TrueView(i)
         IN IF e.kind = "multi" THEN <<i>> \o ChainOf(e.next, fuel - 1) ELSE <<i>>

\* The slots of the chains of the live values.
LiveSlots ==
    UNION {LET ch == ChainOf(live[k].h, MaxParts) IN {ch[j] : j \in 1..Len(ch)} :
           k \in DOMAIN live}

\* The free-list head's tombstone sits in a recorded batch, not in the
\* in-progress one, and has not reached the file.
PendingTomb(lr) ==
    LET ov == LatestIn(pending, Len(pending), lr)
    IN /\ lr # 0 /\ lr \notin DOMAIN cur
       /\ ov.some /\ ov.e.kind = "tomb"
       /\ ~(lr \in DOMAIN fslot /\ fslot[lr] = ov.e)

\* The record of a next_free call that returned r.
NoteCall(r) ==
    [valid |-> TRUE, index |-> r.index, pre_filled |-> filled, pre_lr |-> last_removed,
     post_filled |-> r.filled, was_tomb |-> TrueView(last_removed).kind = "tomb",
     expect |-> IF lifo = <<>> THEN 0 ELSE Head(lifo),
     post_lr |-> r.last_removed,
     pend_tomb |-> PendingTomb(last_removed),
     tomb_next |-> IF PendingTomb(last_removed) THEN TrueView(last_removed).next ELSE 0,
     was_live |-> r.index \in LiveSlots]

LiveAfter(wr) ==
    IF wr.op = "insert" THEN (wr.key :> [h |-> wr.start, v |-> wr.value]) @@ live
    ELSE IF wr.op = "replace" THEN [live EXCEPT ![wr.key].v = wr.value]
    ELSE [k \in DOMAIN live \ {wr.key} |-> live[k]]

Values == IF multipart THEN MultiValues ELSE SingleValues

\* The slots a value of length v takes: the iterations of overwrite_chain.
RECURSIVE SlotsFor(_)
SlotsFor(remainder) ==
    IF remainder > entry_size - 2 THEN 1 + SlotsFor(remainder - (entry_size - 10)) ELSE 1

\* The callers stage at most MaxWork entries of values in all.
Affordable(v) == ops + SlotsFor(v + KEY_SUFFIX) <= MaxWork

\* The entry one iteration of overwrite_chain writes, the count of content
\* bytes it carries, and the offset into the value it leaves.
stage_entry(wr) ==
    LET free_space == entry_size - 2
        isMulti == wr.remainder > free_space
        value_len == IF isMulti THEN free_space - 8 ELSE wr.remainder
        taken == IF wr.offset = 0 THEN value_len - KEY_SUFFIX ELSE value_len
        k == IF wr.offset = 0 THEN wr.key ELSE 0
    IN [e |-> IF isMulti
              THEN Multi(wr.next_index, k, wr.value, wr.offset, wr.offset + taken)
              ELSE Single(wr.remainder % 65536, k, wr.value, wr.offset, wr.offset + taken),
        value_len |-> value_len,
        offset |-> wr.offset + taken]

write_insert_plan(k, v) ==
    /\ mode = "run" /\ wpc = "idle" /\ Affordable(v)
    /\ k \notin DOMAIN live
    /\ ops' = ops + SlotsFor(v + KEY_SUFFIX)
    /\ recovered' = FALSE
    /\ w' = [W0 EXCEPT !.pre = AtCall, !.op = "insert", !.key = k, !.value = v, !.remainder = v + KEY_SUFFIX]
    /\ wpc' = IF multipart \/ v <= value_size THEN "head" ELSE "panicked"
    /\ UNCHANGED <<multipart, entry_size, capacity, filled, last_removed, fileLen, fslot,
                   hdr, cur, pending, enacted, mode, live, livePub, pub, nf, lifo,
                   curWrites, crashes>>

write_replace_plan(k, v) ==
    /\ mode = "run" /\ wpc = "idle" /\ Affordable(v)
    /\ k \in DOMAIN live
    /\ ops' = ops + SlotsFor(v + KEY_SUFFIX)
    /\ recovered' = FALSE
    /\ w' = [W0 EXCEPT !.pre = AtCall, !.op = "replace", !.key = k, !.value = v, !.remainder = v + KEY_SUFFIX,
                       !.index = live[k].h, !.follow = TRUE,
                       !.old = ChainOf(live[k].h, MaxParts)]
    /\ wpc' = IF multipart \/ v <= value_size THEN "link" ELSE "panicked"
    /\ UNCHANGED <<multipart, entry_size, capacity, filled, last_removed, fileLen, fslot,
                   hdr, cur, pending, enacted, mode, live, livePub, pub, nf, lifo,
                   curWrites, crashes>>

write_remove_plan(k) ==
    /\ mode = "run" /\ wpc = "idle"
    /\ k \in DOMAIN live
    /\ ops' = ops
    /\ recovered' = FALSE
    /\ w' = [W0 EXCEPT !.pre = AtCall, !.op = "remove", !.key = k, !.index = live[k].h, !.start = live[k].h,
                       !.old = ChainOf(live[k].h, MaxParts)]
    /\ wpc' = "clear"
    /\ lifo' = <<>>
    /\ UNCHANGED <<multipart, entry_size, capacity, filled, last_removed, fileLen, fslot,
                   hdr, cur, pending, enacted, mode, live, livePub, pub, nf,
                   curWrites, crashes>>

\* overwrite_chain, `at` = None: the head comes from next_free.
overwrite_head ==
    /\ wpc = "head"
    /\ LET r == next_free IN
       IF r.ok
       THEN /\ filled' = r.filled
            /\ last_removed' = r.last_removed
            /\ nf' = NoteCall(r)
            /\ lifo' = IF lifo = <<>> THEN lifo ELSE Tail(lifo)
            /\ w' = [w EXCEPT !.index = r.index, !.allocs = Append(@, r.index),
                              !.fresh = IF r.filled # filled THEN @ \cup {r.index} ELSE @]
            /\ wpc' = "link"
       ELSE /\ wpc' = "failed"
            /\ UNCHANGED <<filled, last_removed, nf, lifo, w>>
    /\ UNCHANGED <<multipart, entry_size, capacity, fileLen, fslot, hdr, cur, pending,
                   enacted, mode, live, livePub, pub, curWrites, recovered, ops, crashes>>

\* One iteration up to the choice of next_index: follow the existing link,
\* or take a new slot when the value goes on and there is no link to follow.
overwrite_link ==
    /\ wpc = "link"
    /\ LET rp == IF w.follow THEN read_next_part(w.index) ELSE [ok |-> TRUE, some |-> FALSE, val |-> 0]
           follow == w.follow /\ rp.ok /\ rp.some
           linked == IF follow THEN rp.val ELSE 0
           goesOn == w.remainder > entry_size - 2
           r == next_free
           st == IF w.start = 0 THEN w.index ELSE w.start
       IN IF ~rp.ok
          THEN /\ wpc' = "failed"
               /\ w' = [w EXCEPT !.start = st]
               /\ UNCHANGED <<filled, last_removed, nf, lifo>>
          ELSE IF goesOn /\ ~follow
          THEN IF r.ok
               THEN /\ filled' = r.filled
                    /\ last_removed' = r.last_removed
                    /\ nf' = NoteCall(r)
                    /\ lifo' = IF lifo = <<>> THEN lifo ELSE Tail(lifo)
                    /\ w' = [w EXCEPT !.start = st, !.follow = FALSE, !.next_index = r.index,
                                      !.allocs = Append(@, r.index),
                                      !.fresh = IF r.filled # filled THEN @ \cup {r.index} ELSE @]
                    /\ wpc' = "stage"
               ELSE /\ wpc' = "failed"
                    /\ w' = [w EXCEPT !.start = st, !.follow = FALSE]
                    /\ UNCHANGED <<filled, last_removed, nf, lifo>>
          ELSE /\ w' = [w EXCEPT !.start = st, !.follow = follow, !.next_index = linked]
               /\ wpc' = "stage"
               /\ UNCHANGED <<filled, last_removed, nf, lifo>>
    /\ UNCHANGED <<multipart, entry_size, capacity, fileLen, fslot, hdr, cur, pending,
                   enacted, mode, live, livePub, pub, curWrites, recovered, ops, crashes>>

\* Staging that also writes the entry to its slot of the file.
file_after_stage_written(f, i, e) == (i :> e) @@ f

\* The file's slots after an entry is staged: insert_value goes to the log, and
\* the plan functions hold the file for read_at only.
file_after_stage(f, i, e) == f

\* Staging at the slot the iteration links to, not at the iteration's own.
stage_index_next(wr) == wr.next_index

\* The slot the iteration's entry is staged at.
stage_index(wr) == wr.index

\* The rest of the iteration: encode the entry, insert_value, advance; at the
\* value's end either return or go on to clear_chain on the unused tail.
overwrite_stage ==
    /\ wpc = "stage"
    /\ LET s == stage_entry(w)
           rem == w.remainder - s.value_len
           wr == [w EXCEPT !.remainder = rem, !.offset = s.offset, !.index = w.next_index]
       IN /\ cur' = insert_value(cur, stage_index(w), s.e)
          /\ fslot' = file_after_stage(fslot, stage_index(w), s.e)
          /\ w' = wr
          /\ IF rem # 0
             THEN /\ wpc' = "link"
                  /\ UNCHANGED <<live, curWrites>>
             ELSE IF wr.index # 0
             THEN /\ wpc' = "clear"
                  /\ UNCHANGED <<live, curWrites>>
             ELSE /\ wpc' = "idle"
                  /\ live' = LiveAfter(wr)
                  /\ curWrites' = curWrites \cup {w.key}
    /\ UNCHANGED <<multipart, entry_size, capacity, filled, last_removed, fileLen,
                   hdr, pending, enacted, mode, livePub, pub, nf, lifo, recovered, ops,
                   crashes>>

\* clear_slot: stage a tombstone that links to the free-list head, then make
\* the slot the head.
clear_slot(batch, lr, index) ==
    [batch |-> insert_value(batch, index, Tomb(lr)), last_removed |-> index]

\* One iteration of clear_chain (or, in a single-slot table, the one clear_slot
\* of write_remove_plan).
clear_chain_step ==
    /\ wpc = "clear"
    /\ LET chain == multipart \/ w.op # "remove"
           rp == IF chain THEN read_next_part(w.index) ELSE [ok |-> TRUE, some |-> FALSE, val |-> 0]
           c == clear_slot(cur, last_removed, w.index)
       IN IF ~rp.ok
          THEN /\ wpc' = "failed"
               /\ UNCHANGED <<cur, fslot, last_removed, lifo, w, live, curWrites>>
          ELSE /\ cur' = c.batch
               /\ fslot' = file_after_stage(fslot, w.index, Tomb(last_removed))
               /\ last_removed' = c.last_removed
               /\ lifo' = IF w.op = "remove" THEN <<w.index>> \o lifo ELSE <<>>
               /\ w' = [w EXCEPT !.index = IF rp.some THEN rp.val ELSE 0,
                                 !.cleared = Append(@, w.index)]
               /\ IF rp.some
                  THEN /\ wpc' = "clear"
                       /\ UNCHANGED <<live, curWrites>>
                  ELSE /\ wpc' = "idle"
                       /\ live' = LiveAfter(w)
                       /\ curWrites' = IF w.op = "remove" THEN curWrites \ {w.key}
                                       ELSE curWrites \cup {w.key}
    /\ UNCHANGED <<multipart, entry_size, capacity, filled, fileLen, hdr, pending,
                   enacted, mode, livePub, pub, nf, recovered, ops, crashes>>

\* The log layer ends the record: the batch becomes a recorded, pending one.
end_record ==
    /\ mode = "run" /\ wpc = "idle"
    /\ DOMAIN cur # {}
    /\ Len(pending) < MaxPending
    /\ pending' = Append(pending, [entries |-> cur, keys |-> curWrites])
    /\ cur' = EmptyMap
    /\ curWrites' = {}
    /\ livePub' = live
    /\ pub' = [filled |-> filled, last_removed |-> last_removed, clean |-> FALSE]
    /\ UNCHANGED <<multipart, entry_size, capacity, filled, last_removed, fileLen, fslot,
                   hdr, enacted, mode, wpc, w, live, nf, lifo, recovered, ops, crashes>>

\* ------------------------------------------------------ the committer
\* grow, repeated while index > capacity.
RECURSIVE grow_until(_, _)
grow_until(cap, index) ==
    IF index > cap THEN grow_until(cap + (GROW_BYTES \div entry_size), index) ELSE cap

\* The file as enact_plan sees it: the capacity in memory, the length and the
\* slots on disk.
File == [capacity |-> capacity, fileLen |-> fileLen, fslot |-> fslot]

\* The length of the file f after enact_plan(index) grew the capacity to cap
\* and wrote n bytes: set_len on growth, and a write past the end extends the
\* file to the write's end.
len_after(f, cap, index, n) ==
    Max(IF cap > f.capacity THEN cap * entry_size ELSE f.fileLen, index * entry_size + n)

\* enact_plan(index) of the logged entry e on the file f.
enact_on(f, index, e) ==
    LET cap == grow_until(f.capacity, index)
    IN [capacity |-> cap,
        fileLen  |-> len_after(f, cap, index, enact_len(e)),
        fslot    |-> (index :> e) @@ f.fslot]

\* The slots of the oldest recorded batch still to enact.
ToEnact == IF pending = <<>> THEN {} ELSE DOMAIN pending[1].entries \ enacted

Committer == wpc \in {"idle", "failed", "panicked"}

enact_plan(index) ==
    /\ mode \in {"run", "replay"} /\ Committer
    /\ index \in ToEnact
    /\ \A j \in ToEnact : index <= j
    /\ LET f == enact_on(File, index, pending[1].entries[index])
       IN /\ capacity' = f.capacity
          /\ fileLen' = f.fileLen
          /\ fslot' = f.fslot
    /\ enacted' = enacted \cup {index}
    /\ UNCHANGED <<multipart, entry_size, filled, last_removed, hdr, cur, pending, mode,
                   wpc, w, live, livePub, pub, nf, lifo, curWrites, recovered, ops, crashes>>

\* complete_plan writes the header; the log layer then drops the batch.
complete_plan ==
    /\ mode \in {"run", "replay"} /\ Committer
    /\ pending # <<>>
    /\ enacted = DOMAIN pending[1].entries
    /\ hdr' = [last_removed |-> last_removed, filled |-> filled]
    /\ pending' = Tail(pending)
    /\ enacted' = {}
    /\ mode' = IF mode = "replay" /\ Len(pending) > 1 THEN "replay" ELSE "run"
    /\ recovered' = (mode = "replay" /\ Len(pending) = 1)
    /\ UNCHANGED <<multipart, entry_size, capacity, filled, last_removed, fileLen, fslot,
                   cur, wpc, w, live, livePub, pub, nf, lifo, curWrites, ops, crashes>>

\* ------------------------------------------------------ crash and reopen
\* The process stops: memory is lost, the file and the recorded batches stay.
crash ==
    /\ mode \in {"run", "replay"} /\ Committer
    /\ crashes < MaxCrashes
    /\ crashes' = crashes + 1
    /\ mode' = "down"
    /\ capacity' = 0 /\ filled' = 0 /\ last_removed' = 0
    /\ cur' = EmptyMap /\ curWrites' = {}
    /\ enacted' = {}
    /\ wpc' = "idle" /\ w' = W0 /\ nf' = NF0 /\ lifo' = <<>>
    /\ live' = livePub
    /\ recovered' = FALSE
    /\ pub' = [pub EXCEPT !.clean = (wpc = "idle" /\ DOMAIN cur = {} /\ pending # <<>>)]
    /\ UNCHANGED <<multipart, entry_size, fileLen, fslot, hdr, pending, livePub, ops>>

\* ValueTable::open on a file of length len with header h.
open_table(len, h) ==
    [capacity |-> len \div entry_size,
     last_removed |-> h.last_removed,
     filled |-> IF h.filled = 0 THEN 1 ELSE h.filled]

open ==
    /\ mode = "down"
    /\ LET t == open_table(fileLen, hdr)
       IN /\ capacity' = t.capacity
          /\ filled' = t.filled
          /\ last_removed' = t.last_removed
    /\ mode' = IF pending = <<>> THEN "run" ELSE "replay"
    /\ UNCHANGED <<multipart, entry_size, fileLen, fslot, hdr, cur, pending, enacted, wpc,
                   w, live, livePub, pub, nf, lifo, curWrites, recovered, ops, crashes>>

\* ------------------------------------------------------------------- Spec
\* open(None): multipart, 4096-byte entries; open(Some(s)): single-slot.
Init ==
    /\ \E m \in BOOLEAN :
          /\ multipart = m
          /\ entry_size = IF m THEN MULTIPART_ENTRY_SIZE ELSE MAX_ENTRY_SIZE
    /\ fileLen = entry_size
    /\ fslot = EmptyMap
    /\ hdr = [last_removed |-> 0, filled |-> 0]
    /\ capacity = 1 /\ filled = 1 /\ last_removed = 0
    /\ cur = EmptyMap /\ pending = <<>> /\ enacted = {}
    /\ mode = "run"
    /\ wpc = "idle" /\ w = W0
    /\ live = EmptyMap /\ livePub = EmptyMap
    /\ pub = [filled |-> 1, last_removed |-> 0, clean |-> FALSE]
    /\ nf = NF0 /\ lifo = <<>> /\ curWrites = {} /\ recovered = FALSE
    /\ ops = 0 /\ crashes = 0

Next ==
    \/ \E k \in Keys, v \in Values : write_insert_plan(k, v)
    \/ \E k \in Keys, v \in Values : write_replace_plan(k, v)
    \/ \E k \in Keys : write_remove_plan(k)
    \/ overwrite_head
    \/ overwrite_link
    \/ overwrite_stage
    \/ clear_chain_step
    \/ end_record
    \/ \E i \in ToEnact : enact_plan(i)
    \/ complete_plan
    \/ crash
    \/ open

Spec == Init /\ [][Next]_vars

\* ----------------------------------------------------------- SpecEncode
\* The writer alone, on one batch, over the entry sizes open accepts at their
\* edges and over value lengths at the edges of what each size accepts.
EntrySizes == {64, 65281, MAX_ENTRY_SIZE}

\* Up to the first length a single-slot table rejects.
EncodeValues ==
    {v \in {10, 5000, 65249, value_size, value_size + 1} : multipart \/ v <= value_size + 1}

InitEncode ==
    /\ \E m \in BOOLEAN, s \in EntrySizes :
          /\ multipart = m
          /\ entry_size = IF m THEN MULTIPART_ENTRY_SIZE ELSE s
    /\ fileLen = entry_size
    /\ fslot = EmptyMap
    /\ hdr = [last_removed |-> 0, filled |-> 0]
    /\ capacity = 1 /\ filled = 1 /\ last_removed = 0
    /\ cur = EmptyMap /\ pending = <<>> /\ enacted = {}
    /\ mode = "run"
    /\ wpc = "idle" /\ w = W0
    /\ live = EmptyMap /\ livePub = EmptyMap
    /\ pub = [filled |-> 1, last_removed |-> 0, clean |-> FALSE]
    /\ nf = NF0 /\ lifo = <<>> /\ curWrites = {} /\ recovered = FALSE
    /\ ops = 0 /\ crashes = 0

NextEncode ==
    \/ \E k \in Keys, v \in EncodeValues : write_insert_plan(k, v)
    \/ \E k \in Keys, v \in EncodeValues : write_replace_plan(k, v)
    \/ \E k \in Keys : write_remove_plan(k)
    \/ overwrite_head
    \/ overwrite_link
    \/ overwrite_stage
    \/ clear_chain_step

SpecEncode == InitEncode /\ [][NextEncode]_vars

\* ----------------------------------------------------------- SpecReplay
\* The replay alone: a table reopened on a new file whose WAL holds one
\* recorded batch, the one-slot inserts of a first run that stopped before it
\* enacted anything.
MaxReplay == 5

\* Value lengths of the recorded inserts: a short one, the one whose size is
\* 0xfeff, the longest a slot holds.
ReplayValues == {v \in {10, 65249, entry_size - 2 - KEY_SUFFIX} : v <= entry_size - 2 - KEY_SUFFIX}

\* The entry write_insert_plan stages for a one-slot value.
entry_of(k, v) ==
    stage_entry([W0 EXCEPT !.key = k, !.value = v, !.remainder = v + KEY_SUFFIX]).e

\* The file open leaves when it creates it.
Fresh == [capacity |-> 1, fileLen |-> entry_size, fslot |-> EmptyMap]

InitReplay ==
    /\ \E m \in BOOLEAN :
          /\ multipart = m
          /\ entry_size = IF m THEN MULTIPART_ENTRY_SIZE ELSE MAX_ENTRY_SIZE
    /\ \E n \in 1..MaxReplay : \E vs \in [2..(n + 1) -> ReplayValues] :
          /\ pending = <<[entries |-> [i \in 2..(n + 1) |-> entry_of(2, vs[i])], keys |-> {}]>>
          /\ pub = [filled |-> n + 1, last_removed |-> 0, clean |-> TRUE]
    /\ fileLen = Fresh.fileLen /\ fslot = Fresh.fslot /\ capacity = Fresh.capacity
    /\ hdr = [last_removed |-> 0, filled |-> 0]
    /\ filled = 1 /\ last_removed = 0
    /\ cur = EmptyMap /\ enacted = {}
    /\ mode = "replay"
    /\ wpc = "idle" /\ w = W0
    /\ live = EmptyMap /\ livePub = EmptyMap
    /\ nf = NF0 /\ lifo = <<>> /\ curWrites = {} /\ recovered = FALSE
    /\ ops = 0 /\ crashes = 0

NextReplay ==
    \/ \E i \in ToEnact : enact_plan(i)
    \/ complete_plan
    \/ crash
    \/ open

SpecReplay == InitReplay /\ [][NextReplay]_vars

\* One uninterrupted replay of the entries at the slots todo, in slot order.
RECURSIVE replay_on(_, _, _)
replay_on(f, entries, todo) ==
    IF todo = {} THEN f
    ELSE LET i == CHOOSE i \in todo : \A j \in todo : i <= j
         IN replay_on(enact_on(f, i, entries[i]), entries, todo \ {i})

\* ================================================================== claims

\* C1: in a multipart table, for every key whose value v was last written at
\* head h (and recorded) and not removed since, get(k, h) returns exactly v,
\* while the entries are staged in the overlay and after they are enacted.
C1_RoundTrip ==
    (multipart /\ mode = "run") =>
        \A k \in DOMAIN livePub : Returns(k, livePub[k].h, livePub[k].v)

\* The slots any batch or the file holds an entry for.
KnownSlots ==
    DOMAIN cur \cup DOMAIN fslot \cup UNION {DOMAIN pending[j].entries : j \in 1..Len(pending)}

Tombstoned == {i \in KnownSlots : TrueView(i).kind = "tomb"}

\* The slots met walking next_free links from i, until 0 (or the fuel's end).
RECURSIVE FreeWalk(_, _)
FreeWalk(i, fuel) ==
    IF i = 0 \/ fuel = 0 THEN <<>> ELSE <<i>> \o FreeWalk(Word(TrueView(i)), fuel - 1)

FreeList == FreeWalk(last_removed, Cardinality(KnownSlots) + 2)

Range(seq) == {seq[j] : j \in 1..Len(seq)}

\* Entry bytes for slot i exist in a batch or in the file.
HasBytes(i) == i \in KnownSlots

\* C2: every index next_free returns is not 0, is at most filled as read after
\* the call, and is either the former free-list head, a tombstoned slot, or
\* the former filled + 1 with filled raised by exactly one.
C2_NextFreeIndex ==
    nf.valid =>
        /\ nf.index # 0
        /\ nf.index <= nf.post_filled
        /\ \/ /\ nf.pre_lr # 0 /\ nf.index = nf.pre_lr
              /\ nf.was_tomb /\ nf.post_filled = nf.pre_filled
           \/ /\ nf.index = nf.pre_filled + 1
              /\ nf.post_filled = nf.pre_filled + 1

\* C3: between plan calls, walking next_free links from last_removed reaches 0
\* after visiting every tombstoned slot exactly once and no live slot.
C3_FreeList ==
    (mode = "run" /\ wpc = "idle") =>
        /\ Len(FreeList) = Cardinality(Range(FreeList))
        /\ Range(FreeList) = Tombstoned

\* C4: after write_remove_plan on a chain, the next calls to next_free return
\* the chain's slots, most recently tombstoned first, and leave filled alone.
C4_LifoReuse ==
    (nf.valid /\ nf.expect # 0) =>
        (nf.index = nf.expect /\ nf.post_filled = nf.pre_filled)

\* The chain a reader walks from head i has the shape of a written value.
RECURSIVE ShapeOK(_, _, _)
ShapeOK(i, seen, fuel) ==
    LET r == fetch(i) IN
    /\ i # 0 /\ i \notin seen /\ fuel > 0
    /\ r.ok
    /\ \/ r.e.kind = "single" /\ r.e # Zero
       \/ r.e.kind = "multi" /\ r.e.next # 0 /\ ShapeOK(r.e.next, seen \cup {i}, fuel - 1)

\* C5: every live value is a finite acyclic chain of one or more slots, the
\* last a live single entry, the others live multipart entries with a
\* non-zero next; get terminates on it.
C5_ChainShape ==
    mode = "run" =>
        \A k \in DOMAIN livePub :
            /\ ShapeOK(livePub[k].h, {}, MaxParts)
            /\ get(k, livePub[k].h).res # "loop"

\* C6: write_replace_plan keeps the head, reuses the old chain's slots in
\* order, takes the extra slots from next_free, and tombstones the unused old
\* tail onto the free list.
C6_ReplaceReuse ==
    (mode = "run" /\ wpc = "idle" /\ w.op = "replace") =>
        LET new == ChainOf(w.start, MaxParts)
            kold == Len(w.old)
            knew == SlotsFor(w.value + KEY_SUFFIX)
            m == Min(kold, knew)
        IN /\ w.start = w.old[1]
           /\ Len(new) = knew
           /\ \A j \in 1..m : new[j] = w.old[j]
           /\ Len(w.allocs) = knew - m
           /\ \A j \in 1..(knew - m) : new[m + j] = w.allocs[j]
           /\ \A j \in (m + 1)..kold :
                 TrueView(w.old[j]).kind = "tomb" /\ w.old[j] \in Range(FreeList)

\* C7: after a crash with recorded batches, open and the replay (enact_plan
\* for each slot, then complete_plan) leave the header and the counters at
\* the values the uninterrupted run has: those after the last recorded plan.
C7_RecoveryHeader ==
    (recovered /\ pub.clean) =>
        /\ hdr.filled = pub.filled /\ hdr.last_removed = pub.last_removed
        /\ filled = pub.filled /\ last_removed = pub.last_removed

\* C8 as stated: in write_insert_plan the staging of a slot newly allocated
\* from the watermark precedes the store that raises filled to it, so
\* whenever filled >= i there are entry bytes for slot i.
C8_StageBeforeStore ==
    w.op = "insert" => \A i \in w.fresh : i <= filled => HasBytes(i)

\* C8 as amended: the store that raises filled to i precedes the staging of
\* slot i, and when write_insert_plan has returned every slot it took from the
\* watermark has its entry staged.
C8_StoreThenStage ==
    w.op = "insert" =>
        \A i \in w.fresh : i <= filled /\ (wpc = "idle" => HasBytes(i))

\* C8's case: a two-slot insert has raised filled to its second slot and has
\* staged neither slot yet.
C8_Witness ==
    /\ w.op = "insert" /\ wpc = "stage"
    /\ Cardinality(w.fresh) = 2
    /\ \A i \in w.fresh : i <= filled /\ ~HasBytes(i)

\* C9: while the oldest recorded batch is being enacted slot by slot and its
\* overlay entries are present, get returns the complete new value of every
\* multi-slot chain the batch wrote.
C9_GetDuringEnact ==
    (mode = "run" /\ pending # <<>> /\ enacted # {}) =>
        \A k \in pending[1].keys :
            (k \in DOMAIN livePub /\ SlotsFor(livePub[k].v + KEY_SUFFIX) > 1) =>
                Returns(k, livePub[k].h, livePub[k].v)

\* C10: the file length is a multiple of entry_size and every slot enact_plan
\* wrote lies wholly inside the file.
C10_FileLength ==
    /\ fileLen % entry_size = 0
    /\ \A i \in DOMAIN fslot : (i + 1) * entry_size <= fileLen

\* C11: in a single-slot table a write_insert_plan or write_replace_plan with
\* |v| + 30 > entry_size - 2 panics before any slot is allocated or staged;
\* every accepted value is stored as exactly one live single entry, and
\* write_remove_plan tombstones exactly that one slot.
C11_SingleSlot ==
    [][~multipart =>
        /\ (wpc = "idle" /\ wpc' # "idle" /\ w'.op \in {"insert", "replace"}) =>
               /\ wpc' = "panicked" <=> w'.value + KEY_SUFFIX > entry_size - 2
               /\ wpc' = "panicked" => UNCHANGED <<cur, filled, last_removed>>
        /\ (wpc = "stage" /\ w.op \in {"insert", "replace"}) =>
               /\ wpc' = "idle"
               /\ w'.start \in DOMAIN cur'
               /\ Kind(cur'[w'.start]) = "single"
               /\ cur'[w'.start].size = w.value + KEY_SUFFIX
               /\ \A i \in DOMAIN cur' \ {w'.start} : i \in DOMAIN cur /\ cur'[i] = cur[i]
        /\ (wpc = "clear" /\ w.op = "remove") =>
               /\ wpc' = "idle"
               /\ cur' = insert_value(cur, w.start, Tomb(last_removed))
      ]_vars

\* C12: a step of write_insert_plan, write_replace_plan or write_remove_plan,
\* failing or not, writes nothing to the file and leaves its length, the
\* capacity and the header on disk as they were.
C12_FileUntouched ==
    [][((wpc' # wpc \/ w' # w) /\ crashes' = crashes) =>
          UNCHANGED <<fileLen, fslot, hdr, capacity>>]_vars

\* C12's case: a plan has failed on a read, with entries staged in the batch
\* and a file that holds enacted slots.
C12_Witness == wpc = "failed" /\ DOMAIN cur # {} /\ DOMAIN fslot # {}

\* C13: when a replay that was stopped after some of the entries and begun
\* again from the first has enacted them all, the file outside the header (its
\* slots and its length) is what one uninterrupted replay leaves.
C13_ReplayIdempotent ==
    (mode = "replay" /\ pending # <<>> /\ enacted = DOMAIN pending[1].entries) =>
        LET u == replay_on(Fresh, pending[1].entries, DOMAIN pending[1].entries)
        IN fslot = u.fslot /\ fileLen = u.fileLen

\* C14 as stated: on a freshly opened empty table the first write_insert_plan
\* of a one-slot value returns head 1, leaves filled = 2 and last_removed = 0,
\* and get at index 1 returns the value.
C14_FirstInsertAtOne ==
    (w.op = "insert" /\ wpc = "idle" /\ ops = 1 /\ crashes = 0) =>
        /\ w.start = 1 /\ filled = 2 /\ last_removed = 0
        /\ DOMAIN cur = {} => Returns(w.key, 1, w.value)

\* C14 as amended: the first write_insert_plan returns head 2 (slot 1 is never
\* handed out), leaves filled = 2 and last_removed = 0, and once the batch is
\* recorded get at index 2 returns the value.
C14_FirstInsertAtTwo ==
    (w.op = "insert" /\ wpc = "idle" /\ ops = 1 /\ crashes = 0) =>
        /\ w.start = 2 /\ filled = 2 /\ last_removed = 0
        /\ DOMAIN cur = {} => Returns(w.key, 2, w.value)

\* C14's case: the first insert has returned and its entry has been enacted,
\* so that get reads it from the file.
C14_Witness ==
    /\ w.op = "insert" /\ wpc = "idle" /\ ops = 1 /\ crashes = 0
    /\ DOMAIN cur = {} /\ pending = <<>>
    /\ Returns(w.key, w.start, w.value)

\* The content sizes of the entries overwrite_chain writes for remainder
\* bytes of content in entries of E bytes, first to last.
RECURSIVE layout(_, _)
layout(E, remainder) ==
    LET free_space == E - 2
    IN IF remainder > free_space
       THEN <<free_space - 8>> \o layout(E, remainder - (free_space - 8))
       ELSE <<remainder>>

\* The content bytes an entry carries: the key suffix in a chain's first slot,
\* then its run of value bytes.
carried(e) == (IF e.key # 0 THEN KEY_SUFFIX ELSE 0) + (e.to - e.from)

RECURSIVE SumSeq(_)
SumSeq(q) == IF q = <<>> THEN 0 ELSE Head(q) + SumSeq(Tail(q))

\* C15: the chain write_insert_plan staged for a value of length L in a
\* multipart table with entries of E bytes: every multipart slot carries
\* E - 10 content bytes, the last slot is a single entry whose size field is
\* what is left (9 .. E - 2 when there are more slots than one), the first
\* slot's content starts with the key suffix, and the sizes sum to L + 30;
\* E = 64 and L = 100 give 54, 54 and 22.
C15_ChainLayout ==
    /\ layout(64, 100 + KEY_SUFFIX) = <<54, 54, 22>>
    /\ (multipart /\ w.op = "insert" /\ wpc = "idle") =>
          LET ch == ChainOf(w.start, MaxParts)
              n == Len(ch)
              at(j) == TrueView(ch[j])
              sizes == [j \in 1..n |-> carried(at(j))]
          IN /\ sizes = layout(entry_size, w.value + KEY_SUFFIX)
             /\ \A j \in 1..(n - 1) :
                   Kind(at(j)) = "multi" /\ sizes[j] = entry_size - 10 /\ at(j).next = ch[j + 1]
             /\ Kind(at(n)) = "single" /\ at(n).size = sizes[n]
             /\ n > 1 => (sizes[n] >= 9 /\ sizes[n] <= entry_size - 2)
             /\ at(1).key = w.key /\ at(1).from = 0
             /\ \A j \in 2..n : at(j).key = 0 /\ at(j).from = at(j - 1).to
             /\ SumSeq(sizes) = w.value + KEY_SUFFIX

\* C16: the two size bytes at the start of every live single entry the writer
\* stages are neither the TOMBSTONE nor the MULTIPART bytes, so the readers
\* classify the entry as a live single one.
C16_TagDisjoint ==
    \A i \in DOMAIN cur :
        cur[i].kind = "single" =>
            /\ tag(cur[i]) # TOMBSTONE /\ tag(cur[i]) # MULTIPART
            /\ Kind(cur[i]) = "single"

\* C17: when next_free pops a slot whose tombstone was staged in an earlier
\* batch, recorded and not yet enacted, it stores that tombstone's next_free
\* field into last_removed.
C17_PopAcrossBatches ==
    (nf.valid /\ nf.pend_tomb) => nf.post_lr = nf.tomb_next

\* C18: for every entry of the recorded batch that enact_plan has enacted,
\* the bytes it read from the log are as many as were staged for the slot, and
\* the slot decoded from the file has the kind, the next / next_free word and
\* the declared content of the staged entry.
C18_StageEnactAgree ==
    pending # <<>> =>
        \A i \in enacted :
            LET e == pending[1].entries[i]
            IN /\ enact_len(e) = StagedLen(e)
               /\ i \in DOMAIN fslot
               /\ Kind(fslot[i]) = Kind(e) /\ Word(fslot[i]) = Word(e)
               /\ fslot[i].size = e.size /\ carried(fslot[i]) = carried(e)

\* C19: between plan calls no slot belongs to the chains of two different
\* live values, and next_free never returns a slot that is part of a live
\* chain when it is called.
C19_SlotExclusive ==
    /\ nf.valid => ~nf.was_live
    /\ (mode = "run" /\ wpc = "idle") =>
          \A k1, k2 \in DOMAIN live :
              k1 # k2 =>
                  Range(ChainOf(live[k1].h, MaxParts)) \cap Range(ChainOf(live[k2].h, MaxParts)) = {}

\* C20: when a plan function returns an I/O error part-way through, filled,
\* last_removed and the overlay are as they were before the call.
C20_StagingAtomic ==
    wpc = "failed" =>
        /\ filled = w.pre.filled
        /\ last_removed = w.pre.last_removed
        /\ cur = w.pre.cur

====
